---- MODULE Spec2Model ----
(***************************************************************************)
(* State-machine model of the ArtBoard drawing component                   *)
(* (src/src/components/ArtBoard.tsx): the scene, the selection, the        *)
(* pointer handlers, the move/resize transform and the undo/redo history.  *)
(*                                                                         *)
(* JavaScript objects are modelled with their reference semantics.  Every  *)
(* DrawingObject record ("shell"), every bounds record and every points    *)
(* array lives in a heap and is named by its index; the scene and the      *)
(* history entries are sequences of shell references.  An object spread    *)
(* ({...obj}) allocates a new shell that still refers to the old bounds    *)
(* and points; JSON.parse(JSON.stringify(..)) allocates everything anew.   *)
(* Numbers are exact rationals <<numerator, denominator>>.                 *)
(***************************************************************************)
EXTENDS Integers, Sequences, FiniteSets, TLC

VARIABLES
    shells,          \* heap of DrawingObject records: ref -> record
    bnds,            \* heap of bounds records
    pts,             \* heap of points arrays
    objects,         \* useState objects: sequence of shell refs
    isDrawing,       \* useState isDrawing
    tool,            \* useState tool
    brushColor,      \* useState brushColor
    brushRadius,     \* useState brushRadius
    selectedObject,  \* useState selectedObject: 0-based index, Null for null
    startPos,        \* useState startPos: <<>> for null, <<p>> otherwise
    resizeHandle,    \* useState resizeHandle: 0..7, Null for null
    history,         \* useState history: sequence of sequences of shell refs
    historyIndex,    \* useState historyIndex (0-based, -1 when empty)
    nGestures,       \* number of pointerDown events so far (bounded)
    nMoves,          \* pointerMove events of the current gesture (bounded)
    nCommands,       \* undo, redo, delete and clear calls so far (bounded)
    nToolChanges,    \* setTool calls so far (bounded)
    obs,             \* observer: what the last operations were and did
    imageSrc,        \* prop imageSrc: an image URL, Null when absent
    backgroundImage, \* useState backgroundImage: an image, Null for null
    loading,         \* Image objects whose onload / onerror is still to come
    canvasBackground \* the background drawObjects last drew on the canvas

vars == <<shells, bnds, pts, objects, isDrawing, tool, brushColor, brushRadius,
          selectedObject, startPos, resizeHandle, history, historyIndex,
          nGestures, nMoves, nCommands, nToolChanges, obs,
          imageSrc, backgroundImage, loading, canvasBackground>>

\* the background image: prop, state, loads in flight, canvas
imgVars == <<imageSrc, backgroundImage, loading, canvasBackground>>

(***************************************************************************)
(* Bounds of the model.                                                    *)
(***************************************************************************)
MaxGestures == 3
MaxMoves == 1
MaxObjects == 2
MaxCommands == 2
MaxToolChanges == 2

\* null for the index-valued states (the code never stores a negative index)
Null == -1

(***************************************************************************)
(* Exact rational arithmetic: the model of JavaScript numbers.             *)
(***************************************************************************)
RECURSIVE GCD(_, _)
GCD(a, b) == IF b = 0 THEN a ELSE GCD(b, a % b)

Abs(n) == IF n < 0 THEN -n ELSE n

Rat(n, d) ==
    LET s == IF d < 0 THEN -1 ELSE 1
        g == GCD(Abs(n), Abs(d))
    IN  <<(s * n) \div g, (s * d) \div g>>

I(n) == <<n, 1>>
RAdd(a, b) == Rat(a[1] * b[2] + b[1] * a[2], a[2] * b[2])
RSub(a, b) == Rat(a[1] * b[2] - b[1] * a[2], a[2] * b[2])
RMul(a, b) == Rat(a[1] * b[1], a[2] * b[2])
RDiv(a, b) == Rat(a[1] * b[2], a[2] * b[1])
RLe(a, b) == a[1] * b[2] <= b[1] * a[2]
RLt(a, b) == a[1] * b[2] < b[1] * a[2]
RHalf(a) == Rat(a[1], 2 * a[2])
RAbs(a) == <<Abs(a[1]), a[2]>>
RMax(a, b) == IF RLe(a, b) THEN b ELSE a
RMin(a, b) == IF RLe(a, b) THEN a ELSE b

RECURSIVE RMinOf(_)
RMinOf(s) == IF Len(s) = 1 THEN s[1] ELSE RMin(s[1], RMinOf(Tail(s)))
RECURSIVE RMaxOf(_)
RMaxOf(s) == IF Len(s) = 1 THEN s[1] ELSE RMax(s[1], RMaxOf(Tail(s)))

Pt(x, y) == [x |-> x, y |-> y]

\* pointer positions delivered by getCanvasPos
PosSet == {Pt(I(10), I(10)), Pt(I(30), I(30))}

(***************************************************************************)
(* Geometry utilities.                                                     *)
(***************************************************************************)
\* calculateBounds(points, strokeWidth)
calculateBounds(points, strokeWidth) ==
    IF Len(points) = 0
    THEN [x |-> I(0), y |-> I(0), width |-> I(0), height |-> I(0)]
    ELSE LET xs == [i \in 1..Len(points) |-> points[i].x]
             ys == [i \in 1..Len(points) |-> points[i].y]
             minX == RSub(RMinOf(xs), RHalf(strokeWidth))
             maxX == RAdd(RMaxOf(xs), RHalf(strokeWidth))
             minY == RSub(RMinOf(ys), RHalf(strokeWidth))
             maxY == RAdd(RMaxOf(ys), RHalf(strokeWidth))
         IN  [x |-> minX, y |-> minY,
              width |-> RSub(maxX, minX), height |-> RSub(maxY, minY)]

\* the bounding-box test shared by the select and the eraser hit-tests
InBounds(pos, b) ==
    /\ RLe(b.x, pos.x)
    /\ RLe(pos.x, RAdd(b.x, b.width))
    /\ RLe(b.y, pos.y)
    /\ RLe(pos.y, RAdd(b.y, b.height))

\* One segment a-b of a stroked path of width lineWidth with butt caps: the
\* rectangle of half-width lineWidth/2 around the segment.  A segment of
\* length 0 strokes nothing.
InSegmentStroke(p, a, b, lineWidth) ==
    LET dx == RSub(b.x, a.x)
        dy == RSub(b.y, a.y)
        vx == RSub(p.x, a.x)
        vy == RSub(p.y, a.y)
        dd == RAdd(RMul(dx, dx), RMul(dy, dy))
        t  == RAdd(RMul(vx, dx), RMul(vy, dy))
        c  == RSub(RMul(vx, dy), RMul(vy, dx))
    IN  /\ RLt(I(0), dd)
        /\ RLe(I(0), t)
        /\ RLe(t, dd)
        /\ RLe(RMul(I(4), RMul(c, c)), RMul(RMul(lineWidth, lineWidth), dd))

\* isPointOnLine(point, linePoints, lineWidth): ctx.isPointInStroke on the
\* polyline (canvas attached).  The join wedges between two segments that
\* are not collinear are not part of this region.
isPointOnLine(point, linePoints, lineWidth) ==
    \E i \in 1..(Len(linePoints) - 1) :
        InSegmentStroke(point, linePoints[i], linePoints[i + 1], lineWidth)

\* the 8 handle centres of getHandleAtPosition / drawSelectionBox
HandleCentres(b) ==
    << Pt(b.x, b.y),
       Pt(RAdd(b.x, RHalf(b.width)), b.y),
       Pt(RAdd(b.x, b.width), b.y),
       Pt(b.x, RAdd(b.y, RHalf(b.height))),
       Pt(RAdd(b.x, b.width), RAdd(b.y, RHalf(b.height))),
       Pt(b.x, RAdd(b.y, b.height)),
       Pt(RAdd(b.x, RHalf(b.width)), RAdd(b.y, b.height)),
       Pt(RAdd(b.x, b.width), RAdd(b.y, b.height)) >>

HandleSize == 8

\* getHandleAtPosition(pos, obj), given obj.bounds: first handle hit, or null
getHandleAtPosition(pos, b) ==
    LET half == RHalf(I(HandleSize))
        hs == HandleCentres(b)
        hit == {i \in 1..8 :
                  /\ RLe(RSub(hs[i].x, half), pos.x)
                  /\ RLe(pos.x, RAdd(hs[i].x, half))
                  /\ RLe(RSub(hs[i].y, half), pos.y)
                  /\ RLe(pos.y, RAdd(hs[i].y, half))}
    IN  IF hit = {} THEN Null
        ELSE (CHOOSE i \in hit : \A j \in hit : i <= j) - 1

\* tolerance added to the stroke width in both hit-tests
Tolerance == 5

\* the test of one object by the select and the eraser hit-tests
\* (o is the object's value: its fields with bounds and points read)
HitTest(pos, o) ==
    /\ InBounds(pos, o.bounds)
    /\ IF o.type = "line"
       THEN isPointOnLine(pos, o.points, I(o.strokeWidth + Tolerance))
       ELSE TRUE

(***************************************************************************)
(* The heap.  h = [shells, bnds, pts]; refs are indices.                   *)
(***************************************************************************)
Heap == [shells |-> shells, bnds |-> bnds, pts |-> pts]

\* the value of the object behind shell ref r
ObjVal(h, r) ==
    [type |-> h.shells[r].type,
     points |-> h.pts[h.shells[r].points],
     stroke |-> h.shells[r].stroke,
     strokeWidth |-> h.shells[r].strokeWidth,
     bounds |-> h.bnds[h.shells[r].bounds],
     selected |-> h.shells[r].selected]

\* the value of an array of objects
SceneVal(h, arr) == [i \in 1..Len(arr) |-> ObjVal(h, arr[i])]

\* Faulty variant of the selection update that leaves earlier flags set
MapSpread_KeepSelected(h, arr, selIdx) ==
    [h |-> [h EXCEPT !.shells = @ \o
                [i \in 1..Len(arr) |->
                    [h.shells[arr[i]] EXCEPT
                        !.selected = (selIdx # Null /\ (@ \/ i - 1 = selIdx))]]],
     arr |-> [i \in 1..Len(arr) |-> Len(h.shells) + i]]

\* Faulty variant of the selection update that compares the index with >=
MapSpread_SelectsFrom(h, arr, selIdx) ==
    [h |-> [h EXCEPT !.shells = @ \o
                [i \in 1..Len(arr) |->
                    [h.shells[arr[i]] EXCEPT
                        !.selected = (selIdx # Null /\ i - 1 >= selIdx)]]],
     arr |-> [i \in 1..Len(arr) |-> Len(h.shells) + i]]

\* objects.map((obj, i) => ({...obj, selected: sel(i)})): new shells that
\* share bounds and points with the old ones.  selIdx is the 0-based index
\* to mark selected (Null: none).
MapSpread(h, arr, selIdx) ==
    [h |-> [h EXCEPT !.shells = @ \o
                [i \in 1..Len(arr) |->
                    [h.shells[arr[i]] EXCEPT !.selected = (i - 1 = selIdx)]]],
     arr |-> [i \in 1..Len(arr) |-> Len(h.shells) + i]]

\* JSON.parse(JSON.stringify(arr)): the numbers, strings and booleans of the
\* objects are finite and survive the round trip; every shell, bounds record
\* and points array of the result is a new one.
DeepCopy(h, arr) ==
    [h |-> [shells |-> h.shells \o
                [i \in 1..Len(arr) |->
                    [h.shells[arr[i]] EXCEPT !.bounds = Len(h.bnds) + i,
                                             !.points = Len(h.pts) + i]],
            bnds |-> h.bnds \o
                [i \in 1..Len(arr) |-> h.bnds[h.shells[arr[i]].bounds]],
            pts |-> h.pts \o
                [i \in 1..Len(arr) |-> h.pts[h.shells[arr[i]].points]]],
     arr |-> [i \in 1..Len(arr) |-> Len(h.shells) + i]]

\* --- garbage collection and canonical numbering of the heap ---
RECURSIVE Flatten(_)
Flatten(ss) == IF Len(ss) = 0 THEN <<>> ELSE Head(ss) \o Flatten(Tail(ss))

RECURSIVE Dedupe(_, _)
Dedupe(s, seen) ==
    IF Len(s) = 0 THEN <<>>
    ELSE IF Head(s) \in seen THEN Dedupe(Tail(s), seen)
         ELSE <<Head(s)>> \o Dedupe(Tail(s), seen \cup {Head(s)})

IndexOf(s, v) == CHOOSE i \in 1..Len(s) : s[i] = v

\* Keep what the scene and the history reach, numbered in order of first
\* reach (so, bo, po: the shells, bounds records and points arrays reached,
\* in that order): two heaps that differ only in garbage or in numbering
\* are the same program state.
Normalize(h, objs, hist, so, bo, po) ==
    [shells |-> [i \in 1..Len(so) |->
                    [h.shells[so[i]] EXCEPT
                        !.bounds = IndexOf(bo, @),
                        !.points = IndexOf(po, @)]],
     bnds |-> [i \in 1..Len(bo) |-> h.bnds[bo[i]]],
     pts |-> [i \in 1..Len(po) |-> h.pts[po[i]]],
     objects |-> [i \in 1..Len(objs) |-> IndexOf(so, objs[i])],
     history |-> [k \in 1..Len(hist) |->
                    [i \in 1..Len(hist[k]) |-> IndexOf(so, hist[k][i])]]]

\* React commits the handler's state: the heap, setObjects(objs) and
\* setHistory(hist)
Install(h, objs, hist) ==
    \E so \in {Dedupe(objs \o Flatten(hist), {})} :
    \E bo \in {Dedupe([i \in 1..Len(so) |-> h.shells[so[i]].bounds], {})} :
    \E po \in {Dedupe([i \in 1..Len(so) |-> h.shells[so[i]].points], {})} :
    \E n \in {Normalize(h, objs, hist, so, bo, po)} :
        /\ shells' = n.shells
        /\ bnds' = n.bnds
        /\ pts' = n.pts
        /\ objects' = n.objects
        /\ history' = n.history

(***************************************************************************)
(* Transform engine: the resize step of handleMouseMove.                   *)
(***************************************************************************)
\* the candidate box of a resize step (switch on resizeHandle), before the
\* negative extents are adjusted
ResizeCandidate(b, handle, dx, dy) ==
    CASE handle = 0 -> [x |-> RAdd(b.x, dx), y |-> RAdd(b.y, dy),
                        width |-> RSub(b.width, dx), height |-> RSub(b.height, dy)]
      [] handle = 1 -> [b EXCEPT !.y = RAdd(b.y, dy), !.height = RSub(b.height, dy)]
      [] handle = 2 -> [b EXCEPT !.width = RAdd(b.width, dx),
                                 !.y = RAdd(b.y, dy), !.height = RSub(b.height, dy)]
      [] handle = 3 -> [b EXCEPT !.x = RAdd(b.x, dx), !.width = RSub(b.width, dx)]
      [] handle = 4 -> [b EXCEPT !.width = RAdd(b.width, dx)]
      [] handle = 5 -> [b EXCEPT !.x = RAdd(b.x, dx), !.width = RSub(b.width, dx),
                                 !.height = RAdd(b.height, dy)]
      [] handle = 6 -> [b EXCEPT !.height = RAdd(b.height, dy)]
      [] handle = 7 -> [b EXCEPT !.width = RAdd(b.width, dx),
                                 !.height = RAdd(b.height, dy)]
      [] OTHER -> b

\* AdjustNegative taking the absolute extent without moving the origin
AdjustNegative_AbsOnly(b) ==
    [b EXCEPT !.width = RAbs(b.width), !.height = RAbs(b.height)]

\* "Adjust for negative widths/heights"
AdjustNegative(b) ==
    LET bx == IF RLt(b.width, I(0))
              THEN [b EXCEPT !.x = RAdd(b.x, b.width), !.width = RAbs(b.width)]
              ELSE b
    IN  IF RLt(bx.height, I(0))
        THEN [bx EXCEPT !.y = RAdd(bx.y, bx.height), !.height = RAbs(bx.height)]
        ELSE bx

\* newBounds of a resize step
ResizeBounds(b, handle, dx, dy) == AdjustNegative(ResizeCandidate(b, handle, dx, dy))

\* a[i] = v on a JavaScript array (0-based i <= length): assignment at the
\* end extends the array
ArraySet(a, i, v) ==
    IF i + 1 <= Len(a) THEN [a EXCEPT ![i + 1] = v] ELSE Append(a, v)

\* ResizeLinePoints without the guard: for a box without extent the scale
\* is a division by 0 and the product with it is not a number, written
\* <<0, 0>>
ResizeLinePoints_NoGuard(points, b, nb) ==
    [i \in 1..Len(points) |->
        [x |-> IF b.width # I(0)
               THEN RAdd(nb.x, RMul(RSub(points[i].x, b.x), RDiv(nb.width, b.width)))
               ELSE <<0, 0>>,
         y |-> IF b.height # I(0)
               THEN RAdd(nb.y, RMul(RSub(points[i].y, b.y), RDiv(nb.height, b.height)))
               ELSE <<0, 0>>]]

\* the points of a line after a resize step from box b to box nb
ResizeLinePoints(points, b, nb) ==
    LET scaleX == IF b.width # I(0) THEN RDiv(nb.width, b.width) ELSE I(1)
        scaleY == IF b.height # I(0) THEN RDiv(nb.height, b.height) ELSE I(1)
    IN  [i \in 1..Len(points) |->
            Pt(RAdd(nb.x, RMul(RSub(points[i].x, b.x), scaleX)),
               RAdd(nb.y, RMul(RSub(points[i].y, b.y), scaleY)))]

\* ResizeCirclePoints with the radius following the smaller dimension
ResizeCirclePoints_MinRadius(points, nb) ==
    LET centerX == RAdd(nb.x, RHalf(nb.width))
        centerY == RAdd(nb.y, RHalf(nb.height))
        radius == RHalf(RMin(nb.width, nb.height))
    IN  ArraySet(ArraySet(points, 0, Pt(centerX, centerY)),
                 1, Pt(RAdd(centerX, radius), centerY))

\* the points array of a circle after a resize step to box nb
ResizeCirclePoints(points, nb) ==
    LET centerX == RAdd(nb.x, RHalf(nb.width))
        centerY == RAdd(nb.y, RHalf(nb.height))
        radius == RHalf(RMax(nb.width, nb.height))
    IN  ArraySet(ArraySet(points, 0, Pt(centerX, centerY)),
                 1, Pt(RAdd(centerX, radius), centerY))

\* the handles whose case reads points[1] before assigning a field of it
ReadsSecondPoint == {1, 3, 4, 5, 6}

\* the points array of a rectangle or arrow after a resize step to box nb
\* through handle (switch on resizeHandle), for an array of two points
ResizeRectPoints(points, handle, nb) ==
    LET right == RAdd(nb.x, nb.width)
        bottom == RAdd(nb.y, nb.height)
    IN  CASE handle = 0 -> ArraySet(ArraySet(points, 0, Pt(nb.x, nb.y)),
                                    1, Pt(right, bottom))
          [] handle = 1 -> [points EXCEPT ![1].y = nb.y, ![2].y = bottom]
          [] handle = 2 -> ArraySet([points EXCEPT ![1].y = nb.y],
                                    1, Pt(right, bottom))
          [] handle = 3 -> [points EXCEPT ![1].x = nb.x, ![2].x = right]
          [] handle = 4 -> [points EXCEPT ![2].x = right]
          [] handle = 5 -> [points EXCEPT ![1].x = nb.x, ![2].y = bottom]
          [] handle = 6 -> [points EXCEPT ![2].y = bottom]
          [] handle = 7 -> ArraySet(points, 1, Pt(right, bottom))
          [] OTHER -> points

\* what the case of handle has written into a one-point array when reading
\* points[1] raises the TypeError that ends the handler
ResizeRectPartial(points, handle, nb) ==
    CASE handle = 1 -> [points EXCEPT ![1].y = nb.y]
      [] handle = 3 -> [points EXCEPT ![1].x = nb.x]
      [] handle = 5 -> [points EXCEPT ![1].x = nb.x]
      [] OTHER -> points

(***************************************************************************)
(* The observer.  obs records, for the properties below, what the last     *)
(* operation was and the state before the current gesture or command; the  *)
(* program never reads it.                                                 *)
(*   op    the last operation: "down" (pointerDown), "erase" (pointerDown  *)
(*         of the eraser that deleted and committed), "move", "up"         *)
(*         (pointerUp that ends a gesture), "leave" (mouseup or mouseleave *)
(*         outside a gesture), "undo", "redo", "delete", "clear", "tool"   *)
(*   acted the last operation committed a snapshot (addToHistory) or       *)
(*         installed one (undo, redo)                                      *)
(*   pre   scene value, historyIndex and history length before the current *)
(*         or last gesture (at its pointerDown) or command                 *)
(*   undoOfChange  the last operation is an undo() called right after a    *)
(*         completed gesture or command that changed the scene             *)
(*   phase, nD, nU, nR  the run the session is in: completed draw gestures *)
(*         (D), then undo() calls (U), then redo() calls (R); X: no run    *)
(*   fresh the run of draw gestures started at the initial state           *)
(*   drawn the scene value after the last draw gesture of the run          *)
(***************************************************************************)
NoPre == [scene |-> <<>>, idx |-> -2, len |-> -2]

Scene == SceneVal(Heap, objects)

PreNow == [scene |-> Scene, idx |-> historyIndex, len |-> Len(history)]

ObsInit ==
    [op |-> "init", acted |-> FALSE, pre |-> NoPre, undoOfChange |-> FALSE,
     phase |-> "D", nD |-> 0, nU |-> 0, nR |-> 0, fresh |-> TRUE,
     drawn |-> <<>>]

\* the run after a completed draw gesture that left the scene value sc
RunDraw(o, sc) ==
    IF o.phase = "D"
    THEN [o EXCEPT !.nD = @ + 1, !.drawn = sc]
    ELSE [o EXCEPT !.phase = "D", !.nD = 1, !.nU = 0, !.nR = 0,
                   !.fresh = FALSE, !.drawn = sc]

\* the run after any other gesture or command
RunBreak(o) ==
    [o EXCEPT !.phase = "X", !.nD = 0, !.nU = 0, !.nR = 0,
              !.fresh = FALSE, !.drawn = <<>>]

\* the run after a call of undo()
RunUndo(o) ==
    IF o.phase = "D" /\ o.nD >= 1 THEN [o EXCEPT !.phase = "U", !.nU = 1]
    ELSE IF o.phase = "U" /\ o.nU < o.nD THEN [o EXCEPT !.nU = @ + 1]
    ELSE RunBreak(o)

\* the run after a call of redo()
RunRedo(o) ==
    IF o.phase = "U" /\ o.nU = o.nD THEN [o EXCEPT !.phase = "R", !.nR = 1]
    ELSE IF o.phase = "R" /\ o.nR < o.nU THEN [o EXCEPT !.nR = @ + 1]
    ELSE RunBreak(o)

\* the operations that complete a gesture or command
Completing == {"up", "delete", "clear"}

(***************************************************************************)
(* History manager.                                                        *)
(***************************************************************************)
\* Faulty variant of addToHistory that keeps the snapshots beyond the cursor
addToHistory_NoTruncate(h, newObjects) ==
    LET c == DeepCopy(h, newObjects)
    IN  [h |-> c.h,
         history |-> history \o <<c.arr>>,
         historyIndex |-> historyIndex + 1]

\* Faulty variant of addToHistory that sets the cursor to the length the
\* stack had before the truncation
addToHistory_StaleLength(h, newObjects) ==
    LET c == DeepCopy(h, newObjects)
    IN  [h |-> c.h,
         history |-> SubSeq(history, 1, historyIndex + 1) \o <<c.arr>>,
         historyIndex |-> Len(history)]

\* addToHistory(newObjects), from the handler's heap h: the new heap and
\* the values given to setHistory and setHistoryIndex
addToHistory(h, newObjects) ==
    LET c == DeepCopy(h, newObjects)
    IN  [h |-> c.h,
         history |-> SubSeq(history, 1, historyIndex + 1) \o <<c.arr>>,
         historyIndex |-> historyIndex + 1]

\* Faulty variant of undo() that also acts at cursor 0, stepping back to
\* the empty scene
UndoResult_ToEmpty ==
    IF historyIndex >= 0
    THEN [historyIndex |-> historyIndex - 1,
          objects |-> IF historyIndex = 0 THEN <<>> ELSE history[historyIndex]]
    ELSE [historyIndex |-> historyIndex, objects |-> objects]

\* undo(): the values it gives to setHistoryIndex and setObjects (the
\* state kept when the guard fails)
UndoResult ==
    IF historyIndex > 0
    THEN [historyIndex |-> historyIndex - 1, objects |-> history[historyIndex]]
    ELSE [historyIndex |-> historyIndex, objects |-> objects]

\* redo(): likewise
RedoResult ==
    IF historyIndex < Len(history) - 1
    THEN [historyIndex |-> historyIndex + 1, objects |-> history[historyIndex + 2]]
    ELSE [historyIndex |-> historyIndex, objects |-> objects]

\* undo(), as a call of the function: the Undo button, which is disabled
\* while historyIndex <= 0, calls it only where its own guard passes
undo ==
    /\ ~isDrawing
    /\ nCommands < MaxCommands
    /\ nCommands' = nCommands + 1
    /\ \E u \in {UndoResult} :
           /\ historyIndex' = u.historyIndex
           /\ Install(Heap, u.objects, history)
    /\ \E after \in {obs.op \in Completing /\ Scene # obs.pre.scene} :
           obs' = [RunUndo(obs) EXCEPT
                     !.op = "undo",
                     !.acted = (historyIndex' # historyIndex),
                     !.undoOfChange = after,
                     !.pre = IF after THEN obs.pre ELSE NoPre]
    /\ UNCHANGED <<isDrawing, tool, brushColor, brushRadius, selectedObject,
                   startPos, resizeHandle, nGestures, nMoves, nToolChanges>>

\* redo(), as a call of the function: the Redo button, which is disabled
\* while historyIndex >= history.length - 1, calls it only where its own
\* guard passes
redo ==
    /\ ~isDrawing
    /\ nCommands < MaxCommands
    /\ nCommands' = nCommands + 1
    /\ \E u \in {RedoResult} :
           /\ historyIndex' = u.historyIndex
           /\ Install(Heap, u.objects, history)
    /\ obs' = [RunRedo(obs) EXCEPT
                 !.op = "redo", !.acted = (historyIndex' # historyIndex),
                 !.undoOfChange = FALSE, !.pre = NoPre]
    /\ UNCHANGED <<isDrawing, tool, brushColor, brushRadius, selectedObject,
                   startPos, resizeHandle, nGestures, nMoves, nToolChanges>>

(***************************************************************************)
(* Interaction state machine: the pointer handlers.                        *)
(***************************************************************************)
DrawTools == {"brush", "circle", "rect", "arrow"}

\* The tools the session switches to.  The toolbar of ArtBoard also has a
\* brush and a circle button; the sessions explored start with the brush
\* (the initial tool) and switch among these three.
ToolPalette == {"rect", "select", "eraser"}

\* the index (1-based) of the topmost object that passes the select
\* hit-test at pos, 0 when none does
ClickedObject(pos) ==
    LET hits == {i \in 1..Len(objects) : HitTest(pos, ObjVal(Heap, objects[i]))}
    IN  IF hits = {} THEN 0 ELSE CHOOSE i \in hits : \A j \in hits : j <= i

\* handleMouseDown, tool = select: the handler's result
SelectDown(pos) ==
    LET hasSel == selectedObject # Null /\ selectedObject < Len(objects)
        handleIndex ==
            IF hasSel
            THEN getHandleAtPosition(pos, bnds[shells[objects[selectedObject + 1]].bounds])
            ELSE Null
        clicked == ClickedObject(pos)
        m == MapSpread(Heap, objects, IF clicked = 0 THEN Null ELSE clicked - 1)
    IN  IF hasSel /\ handleIndex # Null
        THEN [h |-> Heap, objects |-> objects, history |-> history,
              historyIndex |-> historyIndex, selectedObject |-> selectedObject,
              resizeHandle |-> handleIndex, op |-> "down"]
        ELSE [h |-> m.h, objects |-> m.arr, history |-> history,
              historyIndex |-> historyIndex,
              selectedObject |-> IF clicked = 0 THEN Null ELSE clicked - 1,
              resizeHandle |-> resizeHandle, op |-> "down"]

\* EraserDown removing only the topmost object under the pointer
EraserDown_TopmostOnly(pos) ==
    LET top == ClickedObject(pos)
        newObjects == IF top = 0 THEN objects
                      ELSE SubSeq(objects, 1, top - 1)
                           \o SubSeq(objects, top + 1, Len(objects))
        a == addToHistory(Heap, newObjects)
    IN  IF Len(newObjects) # Len(objects)
        THEN [h |-> a.h, objects |-> newObjects, history |-> a.history,
              historyIndex |-> a.historyIndex, selectedObject |-> selectedObject,
              resizeHandle |-> resizeHandle, op |-> "erase"]
        ELSE [h |-> Heap, objects |-> objects, history |-> history,
              historyIndex |-> historyIndex, selectedObject |-> selectedObject,
              resizeHandle |-> resizeHandle, op |-> "down"]

\* handleMouseDown, tool = eraser
EraserDown(pos) ==
    LET newObjects == SelectSeq(objects, LAMBDA r : ~HitTest(pos, ObjVal(Heap, r)))
        a == addToHistory(Heap, newObjects)
    IN  IF Len(newObjects) # Len(objects)
        THEN [h |-> a.h, objects |-> newObjects, history |-> a.history,
              historyIndex |-> a.historyIndex, selectedObject |-> selectedObject,
              resizeHandle |-> resizeHandle, op |-> "erase"]
        ELSE [h |-> Heap, objects |-> objects, history |-> history,
              historyIndex |-> historyIndex, selectedObject |-> selectedObject,
              resizeHandle |-> resizeHandle, op |-> "down"]

\* handleMouseDown, drawing tool: "Start a new object"
DrawDown(pos) ==
    LET newObject == [type |-> IF tool = "brush" THEN "line" ELSE tool,
                      points |-> Len(pts) + 1,
                      stroke |-> brushColor,
                      strokeWidth |-> brushRadius,
                      bounds |-> Len(bnds) + 1,
                      selected |-> FALSE]
        h == [shells |-> Append(shells, newObject),
              bnds |-> Append(bnds, [x |-> pos.x, y |-> pos.y,
                                     width |-> I(0), height |-> I(0)]),
              pts |-> Append(pts, <<pos>>)]
    IN  [h |-> h, objects |-> Append(objects, Len(shells) + 1),
         history |-> history, historyIndex |-> historyIndex,
         selectedObject |-> selectedObject, resizeHandle |-> resizeHandle,
         op |-> "down"]

\* handleMouseDown at position pos
handleMouseDown(pos) ==
    /\ ~isDrawing
    /\ nGestures < MaxGestures
    /\ tool \in DrawTools => Len(objects) < MaxObjects
    /\ \E r \in {CASE tool = "select" -> SelectDown(pos)
                   [] tool = "eraser" -> EraserDown(pos)
                   [] OTHER -> DrawDown(pos)} :
           /\ Install(r.h, r.objects, r.history)
           /\ historyIndex' = r.historyIndex
           /\ selectedObject' = r.selectedObject
           /\ resizeHandle' = r.resizeHandle
           /\ obs' = [obs EXCEPT !.op = r.op, !.acted = (r.op = "erase"),
                                 !.pre = PreNow,
                                 !.undoOfChange = FALSE]
    /\ isDrawing' = TRUE
    /\ startPos' = <<pos>>
    /\ nGestures' = nGestures + 1
    /\ nMoves' = 0
    /\ UNCHANGED <<tool, brushColor, brushRadius, nCommands, nToolChanges>>

\* handleMouseMove, select tool with a resize handle active: the heap after
\* the step on shell ref r, and whether the handler reached setStartPos
ResizeStep(r, pos) ==
    LET sh == shells[r]
        b == bnds[sh.bounds]
        points == pts[sh.points]
        dx == RSub(pos.x, startPos[1].x)
        dy == RSub(pos.y, startPos[1].y)
        newBounds == ResizeBounds(b, resizeHandle, dx, dy)
        threw == /\ sh.type \in {"rect", "arrow"}
                 /\ Len(points) < 2
                 /\ resizeHandle \in ReadsSecondPoint
        \* obj.points after the branch on obj.type
        h1 == IF sh.type = "line"
              THEN [Heap EXCEPT
                      !.pts = Append(@, ResizeLinePoints(points, b, newBounds)),
                      !.shells[r].points = Len(pts) + 1]
              ELSE IF sh.type = "circle"
              THEN [Heap EXCEPT
                      !.pts[sh.points] = ResizeCirclePoints(points, newBounds)]
              ELSE IF threw
              THEN [Heap EXCEPT
                      !.pts[sh.points] = ResizeRectPartial(points, resizeHandle, newBounds)]
              ELSE [Heap EXCEPT
                      !.pts[sh.points] = ResizeRectPoints(points, resizeHandle, newBounds)]
        \* obj.bounds = newBounds
        h2 == [h1 EXCEPT !.bnds = Append(@, newBounds),
                         !.shells[r].bounds = Len(bnds) + 1]
    IN  IF threw THEN [h |-> h1, done |-> FALSE] ELSE [h |-> h2, done |-> TRUE]

\* MoveStep translating the bounds and leaving the points where they are
MoveStep_BoundsOnly(r, pos) ==
    LET sh == shells[r]
        dx == RSub(pos.x, startPos[1].x)
        dy == RSub(pos.y, startPos[1].y)
    IN  [h |-> [Heap EXCEPT
                  !.bnds[sh.bounds].x = RAdd(@, dx),
                  !.bnds[sh.bounds].y = RAdd(@, dy)],
         done |-> TRUE]

\* handleMouseMove, select tool without a resize handle: "Handle moving"
MoveStep(r, pos) ==
    LET sh == shells[r]
        points == pts[sh.points]
        dx == RSub(pos.x, startPos[1].x)
        dy == RSub(pos.y, startPos[1].y)
    IN  [h |-> [Heap EXCEPT
                  !.bnds[sh.bounds].x = RAdd(@, dx),
                  !.bnds[sh.bounds].y = RAdd(@, dy),
                  !.pts = Append(@, [i \in 1..Len(points) |->
                                        Pt(RAdd(points[i].x, dx), RAdd(points[i].y, dy))]),
                  !.shells[r].points = Len(pts) + 1],
         done |-> TRUE]

\* DrawStep appending the position whatever the tool
DrawStep_AlwaysAppends(r, pos) ==
    LET sh == shells[r]
        h1 == [Heap EXCEPT !.pts[sh.points] = Append(@, pos)]
        points == h1.pts[h1.shells[r].points]
    IN  [h |-> [h1 EXCEPT
                  !.bnds = Append(@, calculateBounds(points, I(sh.strokeWidth))),
                  !.shells[r].bounds = Len(bnds) + 1],
         done |-> FALSE]

\* handleMouseMove, tool other than select: update the last object
DrawStep(r, pos) ==
    LET sh == shells[r]
        h1 == IF tool = "brush"
              THEN [Heap EXCEPT !.pts[sh.points] = Append(@, pos)]
              ELSE IF startPos # <<>>
              THEN [Heap EXCEPT !.pts = Append(@, <<startPos[1], pos>>),
                                !.shells[r].points = Len(pts) + 1]
              ELSE Heap
        points == h1.pts[h1.shells[r].points]
    IN  [h |-> [h1 EXCEPT
                  !.bnds = Append(@, calculateBounds(points, I(sh.strokeWidth))),
                  !.shells[r].bounds = Len(bnds) + 1],
         done |-> FALSE]

\* handleMouseMove at position pos
handleMouseMoveWithin(pos, maxMoves) ==
    /\ isDrawing => nMoves < maxMoves
    /\ \E r \in {IF ~isDrawing THEN [h |-> Heap, done |-> FALSE]
                 ELSE IF tool = "select" /\ selectedObject # Null /\ selectedObject >= 0
                 THEN IF selectedObject >= Len(objects) \/ startPos = <<>>
                      THEN [h |-> Heap, done |-> FALSE]
                      ELSE IF resizeHandle # Null
                           THEN ResizeStep(objects[selectedObject + 1], pos)
                           ELSE MoveStep(objects[selectedObject + 1], pos)
                 ELSE IF tool # "select" /\ Len(objects) > 0
                 THEN DrawStep(objects[Len(objects)], pos)
                 ELSE [h |-> Heap, done |-> FALSE]} :
           /\ Install(r.h, objects, history)
           \* setStartPos(pos) ends the resize and the move branch
           /\ startPos' = IF r.done THEN <<pos>> ELSE startPos
    /\ nMoves' = IF isDrawing THEN nMoves + 1 ELSE nMoves
    /\ obs' = IF isDrawing THEN [obs EXCEPT !.op = "move", !.acted = FALSE] ELSE obs
    /\ UNCHANGED <<isDrawing, tool, brushColor, brushRadius, selectedObject,
                   resizeHandle, historyIndex, nGestures, nCommands, nToolChanges>>

\* handleMouseMove in a session of at most MaxMoves samples per gesture
handleMouseMove(pos) == handleMouseMoveWithin(pos, MaxMoves)

\* handleMouseUp without setResizeHandle(null)
handleMouseUp_KeepsHandle ==
    /\ \E a \in {IF isDrawing THEN addToHistory(Heap, objects)
                 ELSE [h |-> Heap, history |-> history,
                       historyIndex |-> historyIndex]} :
       \E m \in {IF tool # "select" THEN MapSpread(a.h, objects, Null)
                 ELSE [h |-> a.h, arr |-> objects]} :
           /\ Install(m.h, m.arr, a.history)
           /\ historyIndex' = a.historyIndex
           /\ selectedObject' = IF tool # "select" THEN Null ELSE selectedObject
           /\ obs' = IF isDrawing
                     THEN IF tool \in DrawTools /\ nMoves >= 1
                          THEN RunDraw([obs EXCEPT !.op = "up", !.acted = TRUE],
                                       SceneVal(m.h, m.arr))
                          ELSE RunBreak([obs EXCEPT !.op = "up", !.acted = TRUE])
                     ELSE [obs EXCEPT !.op = "leave", !.acted = FALSE, !.pre = NoPre,
                                      !.undoOfChange = FALSE]
    /\ isDrawing' = FALSE
    /\ resizeHandle' = resizeHandle
    /\ nMoves' = 0
    /\ UNCHANGED <<tool, brushColor, brushRadius, startPos, nGestures,
                   nCommands, nToolChanges>>

\* handleMouseUp (mouseup, and mouseleave at any time)
handleMouseUp ==
    /\ \E a \in {IF isDrawing THEN addToHistory(Heap, objects)
                 ELSE [h |-> Heap, history |-> history,
                       historyIndex |-> historyIndex]} :
       \E m \in {IF tool # "select" THEN MapSpread(a.h, objects, Null)
                 ELSE [h |-> a.h, arr |-> objects]} :
           /\ Install(m.h, m.arr, a.history)
           /\ historyIndex' = a.historyIndex
           /\ selectedObject' = IF tool # "select" THEN Null ELSE selectedObject
           /\ obs' = IF isDrawing
                     THEN IF tool \in DrawTools /\ nMoves >= 1
                          THEN RunDraw([obs EXCEPT !.op = "up", !.acted = TRUE],
                                       SceneVal(m.h, m.arr))
                          ELSE RunBreak([obs EXCEPT !.op = "up", !.acted = TRUE])
                     ELSE [obs EXCEPT !.op = "leave", !.acted = FALSE, !.pre = NoPre,
                                      !.undoOfChange = FALSE]
    /\ isDrawing' = FALSE
    /\ resizeHandle' = Null
    /\ nMoves' = 0
    /\ UNCHANGED <<tool, brushColor, brushRadius, startPos, nGestures,
                   nCommands, nToolChanges>>

\* objects.filter((_, index) => index !== selectedObject)
WithoutSelected ==
    [i \in 1..(Len(objects) - (IF selectedObject < Len(objects) THEN 1 ELSE 0)) |->
        IF i <= selectedObject THEN objects[i] ELSE objects[i + 1]]

\* handleDelete ("Delete" button)
handleDelete ==
    /\ ~isDrawing
    /\ nCommands < MaxCommands
    /\ nCommands' = nCommands + 1
    /\ IF selectedObject # Null /\ selectedObject >= 0
       THEN \E a \in {addToHistory(Heap, WithoutSelected)} :
                /\ Install(a.h, WithoutSelected, a.history)
                /\ historyIndex' = a.historyIndex
                /\ selectedObject' = Null
                /\ obs' = [RunBreak(obs) EXCEPT
                             !.op = "delete", !.acted = TRUE, !.pre = PreNow,
                             !.undoOfChange = FALSE]
       ELSE /\ UNCHANGED <<shells, bnds, pts, objects, history, historyIndex,
                           selectedObject>>
            /\ obs' = [obs EXCEPT !.op = "delete", !.acted = FALSE, !.pre = PreNow,
                                  !.undoOfChange = FALSE]
    /\ UNCHANGED <<isDrawing, tool, brushColor, brushRadius, startPos,
                   resizeHandle, nGestures, nMoves, nToolChanges>>

\* Faulty variant of handleClearCanvas that empties the scene without
\* committing a snapshot
handleClearCanvas_NoCommit ==
    /\ ~isDrawing
    /\ nCommands < MaxCommands
    /\ nCommands' = nCommands + 1
    /\ Install(Heap, <<>>, history)
    /\ selectedObject' = Null
    /\ obs' = [RunBreak(obs) EXCEPT
                 !.op = "clear", !.acted = FALSE, !.pre = PreNow,
                 !.undoOfChange = FALSE]
    /\ UNCHANGED <<historyIndex, isDrawing, tool, brushColor, brushRadius, startPos,
                   resizeHandle, nGestures, nMoves, nToolChanges>>

\* handleClearCanvas ("Clear" button)
handleClearCanvas ==
    /\ ~isDrawing
    /\ nCommands < MaxCommands
    /\ nCommands' = nCommands + 1
    /\ IF Len(objects) > 0
       THEN \E a \in {addToHistory(Heap, <<>>)} :
                /\ Install(a.h, <<>>, a.history)
                /\ historyIndex' = a.historyIndex
                /\ selectedObject' = Null
                /\ obs' = [RunBreak(obs) EXCEPT
                             !.op = "clear", !.acted = TRUE, !.pre = PreNow,
                             !.undoOfChange = FALSE]
       ELSE /\ UNCHANGED <<shells, bnds, pts, objects, history, historyIndex,
                           selectedObject>>
            /\ obs' = [obs EXCEPT !.op = "clear", !.acted = FALSE, !.pre = PreNow,
                                  !.undoOfChange = FALSE]
    /\ UNCHANGED <<isDrawing, tool, brushColor, brushRadius, startPos,
                   resizeHandle, nGestures, nMoves, nToolChanges>>

\* setTool(t) (toolbar buttons)
setTool(t) ==
    /\ ~isDrawing
    /\ t # tool
    /\ nToolChanges < MaxToolChanges
    /\ nToolChanges' = nToolChanges + 1
    /\ tool' = t
    /\ obs' = [obs EXCEPT !.op = "tool", !.acted = FALSE, !.pre = NoPre,
                          !.undoOfChange = FALSE]
    /\ UNCHANGED <<shells, bnds, pts, objects, isDrawing, brushColor, brushRadius,
                   selectedObject, startPos, resizeHandle, history, historyIndex,
                   nGestures, nMoves, nCommands>>

(***************************************************************************)
(* The specification.                                                      *)
(***************************************************************************)
InitEditor ==
    /\ shells = <<>>
    /\ bnds = <<>>
    /\ pts = <<>>
    /\ objects = <<>>
    /\ isDrawing = FALSE
    /\ tool = "brush"
    /\ brushColor = "#000000"
    /\ brushRadius = 5
    /\ selectedObject = Null
    /\ startPos = <<>>
    /\ resizeHandle = Null
    /\ history = <<>>
    /\ historyIndex = -1
    /\ nGestures = 0
    /\ nMoves = 0
    /\ nCommands = 0
    /\ nToolChanges = 0
    /\ obs = ObsInit

\* the editor mounted without imageSrc: the effect on imageSrc and the
\* first drawObjects leave no background
NoImage ==
    /\ imageSrc = Null
    /\ backgroundImage = Null
    /\ loading = {}
    /\ canvasBackground = Null

Init == InitEditor /\ NoImage

MouseDown == \E pos \in PosSet : handleMouseDown(pos) /\ UNCHANGED imgVars
MouseMove == \E pos \in PosSet : handleMouseMove(pos) /\ UNCHANGED imgVars
MouseUp == handleMouseUp /\ UNCHANGED imgVars
Undo == undo /\ UNCHANGED imgVars
Redo == redo /\ UNCHANGED imgVars
Delete == handleDelete /\ UNCHANGED imgVars
ClearCanvas == handleClearCanvas /\ UNCHANGED imgVars
SetTool == \E t \in ToolPalette : setTool(t) /\ UNCHANGED imgVars

Next ==
    \/ MouseDown
    \/ MouseMove
    \/ MouseUp
    \/ Undo
    \/ Redo
    \/ Delete
    \/ ClearCanvas
    \/ SetTool

Spec == Init /\ [][Next]_vars

(***************************************************************************)
(* A session of the select tool on a scene of two rectangles.              *)
(***************************************************************************)
\* pointer positions of this session: (20,20) lies inside the first
\* rectangle away from its handles, and on the second rectangle
PosSetSelect == {Pt(I(10), I(10)), Pt(I(20), I(20)), Pt(I(30), I(30))}

\* a rectangle as the rect tool leaves it: drawn from (10,10) to (30,30)
\* (big), or clicked at (20,20) without a move (not big); its bounds and
\* points are heap entries k
RectShell(k) ==
    [type |-> "rect", points |-> k, stroke |-> "#000000", strokeWidth |-> 5,
     bounds |-> k, selected |-> FALSE]

RectBounds(big) ==
    IF big THEN calculateBounds(<<Pt(I(10), I(10)), Pt(I(30), I(30))>>, I(5))
    ELSE [x |-> I(20), y |-> I(20), width |-> I(0), height |-> I(0)]

RectPoints(big) ==
    IF big THEN <<Pt(I(10), I(10)), Pt(I(30), I(30))>> ELSE <<Pt(I(20), I(20))>>

\* The editor after setTool(rect), a rectangle dragged from (10,10) to
\* (30,30), a rectangle clicked at (20,20), and setTool(select): the live
\* scene [A, B] and the two committed snapshots [A] and [A, B].  The
\* session that follows is left two gestures, one command and one tool
\* change.
InitSelect ==
    /\ shells = [k \in 1..5 |-> RectShell(k)]
    /\ bnds = [k \in 1..5 |-> RectBounds(k \in {1, 3, 4})]
    /\ pts = [k \in 1..5 |-> RectPoints(k \in {1, 3, 4})]
    /\ objects = <<1, 2>>
    /\ history = <<<<3>>, <<4, 5>>>>
    /\ historyIndex = 1
    /\ isDrawing = FALSE
    /\ tool = "select"
    /\ brushColor = "#000000"
    /\ brushRadius = 5
    /\ selectedObject = Null
    /\ startPos = <<Pt(I(20), I(20))>>
    /\ resizeHandle = Null
    /\ nGestures = 1
    /\ nMoves = 0
    /\ nCommands = 1
    /\ nToolChanges = 1
    /\ obs = [ObsInit EXCEPT !.op = "tool", !.phase = "X", !.fresh = FALSE]
    /\ NoImage

MouseDownSelect == \E pos \in PosSetSelect : handleMouseDown(pos) /\ UNCHANGED imgVars
MouseMoveSelect == \E pos \in PosSetSelect : handleMouseMove(pos) /\ UNCHANGED imgVars

NextSelect ==
    \/ MouseDownSelect
    \/ MouseMoveSelect
    \/ MouseUp
    \/ Undo
    \/ Redo
    \/ Delete
    \/ ClearCanvas
    \/ SetTool

SpecSelect == InitSelect /\ [][NextSelect]_vars

(***************************************************************************)
(* The pointer handlers of the useCanvasEvents hook, on the same state.    *)
(* addToHistory is a prop of the hook: the one of ArtBoard is passed.      *)
(***************************************************************************)
MaxMovesHook == 2

PosSetHook == {Pt(I(10), I(10)), Pt(I(30), I(30)), Pt(I(30), I(10))}

\* the hook's select hit-test: the topmost object whose bounds contain pos
\* (1-based), 0 when there is none
HookClickedObject(pos) ==
    LET hits == {i \in 1..Len(objects) : InBounds(pos, ObjVal(Heap, objects[i]).bounds)}
    IN  IF hits = {} THEN 0 ELSE CHOOSE i \in hits : \A j \in hits : j <= i

\* the hook's handleMouseDown, tool = select
HookSelectDown(pos) ==
    LET clicked == HookClickedObject(pos)
        m == MapSpread(Heap, objects, IF clicked = 0 THEN Null ELSE clicked - 1)
    IN  [h |-> m.h, objects |-> m.arr,
         selectedObject |-> IF clicked = 0 THEN Null ELSE clicked - 1]

\* the hook's handleMouseDown, any other tool: a new object
HookDrawDown(pos) ==
    LET newObject == [type |-> tool,
                      points |-> Len(pts) + 1,
                      stroke |-> brushColor,
                      strokeWidth |-> brushRadius,
                      bounds |-> Len(bnds) + 1,
                      selected |-> FALSE]
        h == [shells |-> Append(shells, newObject),
              bnds |-> Append(bnds, [x |-> pos.x, y |-> pos.y,
                                     width |-> I(0), height |-> I(0)]),
              pts |-> Append(pts, <<pos>>)]
    IN  [h |-> h, objects |-> Append(objects, Len(shells) + 1),
         selectedObject |-> selectedObject]

\* the hook's handleMouseDown at position pos
hookMouseDown(pos) ==
    /\ ~isDrawing
    /\ nGestures < MaxGestures
    /\ tool # "select" => Len(objects) < MaxObjects
    /\ \E r \in {IF tool = "select" THEN HookSelectDown(pos) ELSE HookDrawDown(pos)} :
           /\ Install(r.h, r.objects, history)
           /\ selectedObject' = r.selectedObject
    /\ obs' = [obs EXCEPT !.op = "down", !.acted = FALSE, !.pre = PreNow,
                          !.undoOfChange = FALSE]
    /\ isDrawing' = TRUE
    /\ startPos' = <<pos>>
    /\ nGestures' = nGestures + 1
    /\ nMoves' = 0
    /\ UNCHANGED <<tool, brushColor, brushRadius, resizeHandle, historyIndex,
                   nCommands, nToolChanges>>

\* currentObject.bounds of the hook's drawing branch: the box spanned by
\* the first two points
HookBounds(points) ==
    [x |-> RMin(points[1].x, points[2].x),
     y |-> RMin(points[1].y, points[2].y),
     width |-> RAbs(RSub(points[2].x, points[1].x)),
     height |-> RAbs(RSub(points[2].y, points[1].y))]

\* the hook's handleMouseMove, drawing branch, on the last object (ref r)
HookDrawStep(r, pos) ==
    LET sh == shells[r]
        h1 == IF tool \in {"brush", "eraser"}
              THEN [Heap EXCEPT
                      !.pts[sh.points] = Append(@, pos),
                      !.shells[r].stroke =
                          IF tool = "eraser" THEN "rgba(0,0,0,1)" ELSE @]
              ELSE IF startPos # <<>>
              THEN [Heap EXCEPT !.pts = Append(@, <<startPos[1], pos>>),
                                !.shells[r].points = Len(pts) + 1]
              ELSE Heap
        points == h1.pts[h1.shells[r].points]
    IN  IF Len(points) < 2
        THEN [h |-> h1, done |-> FALSE]
        ELSE [h |-> [h1 EXCEPT !.bnds = Append(@, HookBounds(points)),
                               !.shells[r].bounds = Len(bnds) + 1],
              done |-> FALSE]

\* the hook's handleMouseMove at position pos
hookMouseMove(pos) ==
    /\ isDrawing
    /\ nMoves < MaxMovesHook
    /\ \E r \in {IF tool = "select" /\ selectedObject # Null
                 THEN IF selectedObject >= Len(objects) \/ startPos = <<>>
                      THEN [h |-> Heap, done |-> FALSE]
                      ELSE MoveStep(objects[selectedObject + 1], pos)
                 ELSE IF Len(objects) > 0
                 THEN HookDrawStep(objects[Len(objects)], pos)
                 ELSE [h |-> Heap, done |-> FALSE]} :
           /\ Install(r.h, objects, history)
           /\ startPos' = IF r.done THEN <<pos>> ELSE startPos
    /\ nMoves' = nMoves + 1
    /\ obs' = [obs EXCEPT !.op = "move", !.acted = FALSE]
    /\ UNCHANGED <<isDrawing, tool, brushColor, brushRadius, selectedObject,
                   resizeHandle, historyIndex, nGestures, nCommands, nToolChanges>>

\* the hook's handleMouseUp
hookMouseUp ==
    /\ \E a \in {IF isDrawing THEN addToHistory(Heap, objects)
                 ELSE [h |-> Heap, history |-> history,
                       historyIndex |-> historyIndex]} :
           /\ Install(a.h, objects, a.history)
           /\ historyIndex' = a.historyIndex
    /\ obs' = IF isDrawing
              THEN RunBreak([obs EXCEPT !.op = "up", !.acted = TRUE])
              ELSE [obs EXCEPT !.op = "leave", !.acted = FALSE, !.pre = NoPre,
                               !.undoOfChange = FALSE]
    /\ isDrawing' = FALSE
    /\ nMoves' = 0
    /\ UNCHANGED <<tool, brushColor, brushRadius, selectedObject, startPos,
                   resizeHandle, nGestures, nCommands, nToolChanges>>

HookMouseDown == \E pos \in PosSetHook : hookMouseDown(pos) /\ UNCHANGED imgVars
HookMouseMove == \E pos \in PosSetHook : hookMouseMove(pos) /\ UNCHANGED imgVars
HookMouseUp == hookMouseUp /\ UNCHANGED imgVars

NextHook ==
    \/ HookMouseDown
    \/ HookMouseMove
    \/ HookMouseUp
    \/ SetTool

SpecHook == Init /\ [][NextHook]_vars

(***************************************************************************)
(* The editor constructed with the saveData prop.                          *)
(***************************************************************************)
\* the scene that the serialized drawing passed as saveData describes
SavedScene ==
    <<[type |-> "rect",
       points |-> <<Pt(I(10), I(10)), Pt(I(30), I(30))>>,
       stroke |-> "#000000",
       strokeWidth |-> 5,
       bounds |-> calculateBounds(<<Pt(I(10), I(10)), Pt(I(30), I(30))>>, I(5)),
       selected |-> FALSE]>>

\* The state after construction with ({ saveData, imageSrc }, ref): the
\* component destructures saveData and never reads it, so every useState
\* starts from its literal default.
InitWith(saveData) == Init

InitLoad == InitWith(SavedScene)

SpecLoad == InitLoad /\ [][Next]_vars

(***************************************************************************)
(* The stroke-width controls: the range input of ArtBoard and the Slider   *)
(* component, whose onChange prop is taken to be setBrushRadius, as the    *)
(* onChange of the range input is.  A brush session: the tool stays as it  *)
(* starts, and the width changes share the budget of the tool changes.     *)
(***************************************************************************)
\* <input type="range" min="1" max="50"> of ArtBoard
RangeMin == 1
RangeMax == 50

\* <input type="range" min="1" max="100"> of Slider
SliderMin == 1
SliderMax == 100

\* setBrushRadius(v)
setBrushRadius(v) ==
    /\ ~isDrawing
    /\ v # brushRadius
    /\ nToolChanges < MaxToolChanges
    /\ nToolChanges' = nToolChanges + 1
    /\ brushRadius' = v
    /\ obs' = [obs EXCEPT !.op = "width", !.acted = FALSE, !.pre = NoPre,
                          !.undoOfChange = FALSE]
    /\ UNCHANGED <<shells, bnds, pts, objects, isDrawing, tool, brushColor,
                   selectedObject, startPos, resizeHandle, history, historyIndex,
                   nGestures, nMoves, nCommands>>

\* the range input moved to a value of its range (here: its maximum)
RangeInputChange ==
    \E v \in {RangeMax} : RangeMin <= v /\ v <= RangeMax /\ setBrushRadius(v) /\ UNCHANGED imgVars

\* the Slider moved to a value of its range (here: its maximum)
SliderChange ==
    \E v \in {SliderMax} : SliderMin <= v /\ v <= SliderMax /\ setBrushRadius(v) /\ UNCHANGED imgVars

NextWidth ==
    \/ MouseDown
    \/ MouseMove
    \/ MouseUp
    \/ Undo
    \/ Redo
    \/ ClearCanvas
    \/ RangeInputChange
    \/ SliderChange

SpecWidth == Init /\ [][NextWidth]_vars

(***************************************************************************)
(* A select session over one circle: the resize step of handleMouseMove    *)
(* for obj.type = "circle".                                                *)
(***************************************************************************)
\* the eight handle centres of the box {0,0,40,40}, the inside of it, and
\* a position outside it
PosSetResize ==
    {Pt(I(0), I(0)), Pt(I(20), I(0)), Pt(I(40), I(0)),
     Pt(I(0), I(20)), Pt(I(40), I(20)),
     Pt(I(0), I(40)), Pt(I(20), I(40)), Pt(I(40), I(40)),
     Pt(I(20), I(20)), Pt(I(80), I(80))}

\* the width the size slider is set to in this session
CircleStroke == 20

\* a circle as the circle tool leaves it: dragged from (10,10) to (30,30)
\* (big), or clicked at (20,20) without a move (not big)
CircleShell(k, sel) ==
    [type |-> "circle", points |-> k, stroke |-> "#000000",
     strokeWidth |-> CircleStroke, bounds |-> k, selected |-> sel]

CircleBounds(big) ==
    IF big THEN calculateBounds(<<Pt(I(10), I(10)), Pt(I(30), I(30))>>, I(CircleStroke))
    ELSE [x |-> I(20), y |-> I(20), width |-> I(0), height |-> I(0)]

CirclePoints(big) ==
    IF big THEN <<Pt(I(10), I(10)), Pt(I(30), I(30))>> ELSE <<Pt(I(20), I(20))>>

\* The editor after setBrushRadius(20), setTool(circle), one circle drawn
\* (dragged or clicked), setTool(select) and a click at (20,20) that
\* selects it: the live scene [C] with C selected, and the committed
\* snapshots [C] and [C selected].  The session that follows is left two
\* gestures.
InitResize ==
    \E big \in BOOLEAN :
        /\ shells = <<CircleShell(1, TRUE), CircleShell(2, FALSE), CircleShell(3, TRUE)>>
        /\ bnds = [k \in 1..3 |-> CircleBounds(big)]
        /\ pts = [k \in 1..3 |-> CirclePoints(big)]
        /\ objects = <<1>>
        /\ history = <<<<2>>, <<3>>>>
        /\ historyIndex = 1
        /\ isDrawing = FALSE
        /\ tool = "select"
        /\ brushColor = "#000000"
        /\ brushRadius = CircleStroke
        /\ selectedObject = 0
        /\ startPos = <<Pt(I(20), I(20))>>
        /\ resizeHandle = Null
        /\ nGestures = MaxGestures - 2
        /\ nMoves = 0
        /\ nCommands = MaxCommands
        /\ nToolChanges = MaxToolChanges
        /\ obs = [ObsInit EXCEPT !.op = "up", !.acted = TRUE, !.phase = "X",
                                 !.fresh = FALSE]
        /\ NoImage

MouseDownResize == \E pos \in PosSetResize : handleMouseDown(pos) /\ UNCHANGED imgVars
MouseMoveResize == \E pos \in PosSetResize : handleMouseMove(pos) /\ UNCHANGED imgVars

NextResize ==
    \/ MouseDownResize
    \/ MouseMoveResize
    \/ MouseUp

SpecResize == InitResize /\ [][NextResize]_vars

(***************************************************************************)
(* A select session over one freehand stroke: the resize step of           *)
(* handleMouseMove for obj.type = "line".                                  *)
(***************************************************************************)
LineShell(k, sel) ==
    [type |-> "line", points |-> k, stroke |-> "#000000",
     strokeWidth |-> CircleStroke, bounds |-> k, selected |-> sel]

\* The editor after setBrushRadius(20), a stroke drawn with the brush from
\* (10,10) to (30,30) (bounds {0,0,40,40}), setTool(select) and a click at
\* (20,20) that selects it.  The session that follows is left two
\* gestures.
InitLine ==
    /\ shells = <<LineShell(1, TRUE), LineShell(2, FALSE), LineShell(3, TRUE)>>
    /\ bnds = [k \in 1..3 |-> CircleBounds(TRUE)]
    /\ pts = [k \in 1..3 |-> CirclePoints(TRUE)]
    /\ objects = <<1>>
    /\ history = <<<<2>>, <<3>>>>
    /\ historyIndex = 1
    /\ isDrawing = FALSE
    /\ tool = "select"
    /\ brushColor = "#000000"
    /\ brushRadius = CircleStroke
    /\ selectedObject = 0
    /\ startPos = <<Pt(I(20), I(20))>>
    /\ resizeHandle = Null
    /\ nGestures = MaxGestures - 2
    /\ nMoves = 0
    /\ nCommands = MaxCommands
    /\ nToolChanges = MaxToolChanges
    /\ obs = [ObsInit EXCEPT !.op = "up", !.acted = TRUE, !.phase = "X",
                             !.fresh = FALSE]
    /\ NoImage

SpecLine == InitLine /\ [][NextResize]_vars

(***************************************************************************)
(* A select session over two rectangles with commands: one gesture and     *)
(* three clicks on the Undo, Redo and Delete buttons.                      *)
(***************************************************************************)
\* The editor of InitSelect; the session that follows is left one gesture
\* and three commands.
InitDelete ==
    /\ shells = [k \in 1..5 |-> RectShell(k)]
    /\ bnds = [k \in 1..5 |-> RectBounds(k \in {1, 3, 4})]
    /\ pts = [k \in 1..5 |-> RectPoints(k \in {1, 3, 4})]
    /\ objects = <<1, 2>>
    /\ history = <<<<3>>, <<4, 5>>>>
    /\ historyIndex = 1
    /\ isDrawing = FALSE
    /\ tool = "select"
    /\ brushColor = "#000000"
    /\ brushRadius = 5
    /\ selectedObject = Null
    /\ startPos = <<Pt(I(20), I(20))>>
    /\ resizeHandle = Null
    /\ nGestures = MaxGestures - 1
    /\ nMoves = 0
    /\ nCommands = MaxCommands - 3
    /\ nToolChanges = MaxToolChanges
    /\ obs = [ObsInit EXCEPT !.op = "tool", !.phase = "X", !.fresh = FALSE]
    /\ NoImage

NextDelete ==
    \/ MouseDownSelect
    \/ MouseMoveSelect
    \/ MouseUp
    \/ Undo
    \/ Redo
    \/ Delete

SpecDelete == InitDelete /\ [][NextDelete]_vars

(***************************************************************************)
(* The background image: the effect on imageSrc, the Image callbacks and   *)
(* the redraw effect on objects, in a brush session.                       *)
(***************************************************************************)
\* the image URLs the parent passes as imageSrc
ImageSet == {1, 2}

\* useEffect(..., [imageSrc]) of the render with prop src and state
\* backgroundImage = bg: a new Image whose callbacks keep the drawObjects
\* of that render, or setBackgroundImage(null) and that drawObjects at once
ImageEffect(src, bg) ==
    IF src # Null
    THEN /\ loading' = loading \cup {[img |-> src, closure |-> bg]}
         /\ UNCHANGED <<backgroundImage, canvasBackground>>
    ELSE /\ backgroundImage' = Null
         /\ canvasBackground' = bg
         /\ UNCHANGED loading

\* the parent renders the editor with another imageSrc
SetImageSrc ==
    /\ \E v \in ImageSet \cup {Null} :
          /\ v # imageSrc
          /\ imageSrc' = v
          /\ ImageEffect(v, backgroundImage)
    /\ UNCHANGED <<shells, bnds, pts, objects, isDrawing, tool, brushColor,
                   brushRadius, selectedObject, startPos, resizeHandle, history,
                   historyIndex, nGestures, nMoves, nCommands, nToolChanges, obs>>

\* img.onload: setBackgroundImage(img); drawObjects() of the render that
\* created img, whose backgroundImage is the one captured then
ImageLoaded ==
    /\ \E l \in loading :
          /\ backgroundImage' = l.img
          /\ canvasBackground' = l.closure
          /\ loading' = loading \ {l}
    /\ UNCHANGED <<shells, bnds, pts, objects, isDrawing, tool, brushColor,
                   brushRadius, selectedObject, startPos, resizeHandle, history,
                   historyIndex, nGestures, nMoves, nCommands, nToolChanges, obs,
                   imageSrc>>

\* img.onerror: setBackgroundImage(null), no drawObjects
ImageError ==
    /\ \E l \in loading :
          /\ backgroundImage' = Null
          /\ loading' = loading \ {l}
    /\ UNCHANGED <<shells, bnds, pts, objects, isDrawing, tool, brushColor,
                   brushRadius, selectedObject, startPos, resizeHandle, history,
                   historyIndex, nGestures, nMoves, nCommands, nToolChanges, obs,
                   imageSrc, canvasBackground>>

\* useEffect(() => drawObjects(), [objects]) after a render with a new
\* objects array: the canvas gets the backgroundImage of that render
Redrawn ==
    /\ canvasBackground' = backgroundImage
    /\ UNCHANGED <<imageSrc, backgroundImage, loading>>

\* the handlers of a brush session; with the brush every path of
\* handleMouseDown and handleMouseUp calls setObjects, and handleMouseMove
\* does while a gesture is active
MouseDownImage == \E pos \in PosSet : handleMouseDown(pos) /\ Redrawn
MouseMoveImage ==
    \E pos \in PosSet :
        handleMouseMove(pos) /\ IF isDrawing THEN Redrawn ELSE UNCHANGED imgVars
MouseUpImage == handleMouseUp /\ Redrawn

\* the editor mounted with or without imageSrc: the effect on imageSrc has
\* run with backgroundImage = null, the canvas has no background
InitImage ==
    /\ InitEditor
    /\ imageSrc \in ImageSet \cup {Null}
    /\ backgroundImage = Null
    /\ loading = IF imageSrc = Null THEN {}
                 ELSE {[img |-> imageSrc, closure |-> Null]}
    /\ canvasBackground = Null

NextImage ==
    \/ SetImageSrc
    \/ ImageLoaded
    \/ ImageError
    \/ MouseDownImage
    \/ MouseMoveImage
    \/ MouseUpImage

SpecImage == InitImage /\ [][NextImage]_vars

(***************************************************************************)
(* A circle session: the editor after setTool(circle).                     *)
(***************************************************************************)
InitCircle ==
    /\ shells = <<>>
    /\ bnds = <<>>
    /\ pts = <<>>
    /\ objects = <<>>
    /\ isDrawing = FALSE
    /\ tool = "circle"
    /\ brushColor = "#000000"
    /\ brushRadius = 5
    /\ selectedObject = Null
    /\ startPos = <<>>
    /\ resizeHandle = Null
    /\ history = <<>>
    /\ historyIndex = -1
    /\ nGestures = 0
    /\ nMoves = 0
    /\ nCommands = 0
    /\ nToolChanges = 1
    /\ obs = [ObsInit EXCEPT !.op = "tool"]
    /\ NoImage

NextCircle ==
    \/ MouseDown
    \/ MouseMove
    \/ MouseUp
    \/ Undo
    \/ Redo
    \/ ClearCanvas

SpecCircle == InitCircle /\ [][NextCircle]_vars

(***************************************************************************)
(* A drawing session: gestures of up to two sampled positions, no          *)
(* commands.                                                               *)
(***************************************************************************)
MaxMovesDraw == 2

MouseMoveDraw == \E pos \in PosSet : handleMouseMoveWithin(pos, MaxMovesDraw) /\ UNCHANGED imgVars

NextDraw ==
    \/ MouseDown
    \/ MouseMoveDraw
    \/ MouseUp
    \/ SetTool

SpecDraw == Init /\ [][NextDraw]_vars

(***************************************************************************)
(* A select session over two rectangles with gestures of up to two         *)
(* sampled positions: move gestures.                                       *)
(***************************************************************************)
MouseMoveMove == \E pos \in PosSetSelect : handleMouseMoveWithin(pos, MaxMovesDraw) /\ UNCHANGED imgVars

NextMove ==
    \/ MouseDownSelect
    \/ MouseMoveMove
    \/ MouseUp

SpecMove == InitSelect /\ [][NextMove]_vars

(***************************************************************************)
(* Properties.                                                             *)
(***************************************************************************)
\* the value of history entry k (1-based)
Snapshot(k) == SceneVal(Heap, history[k])

TypeOK ==
    /\ isDrawing \in BOOLEAN
    /\ tool \in DrawTools \cup {"select", "eraser"}
    /\ selectedObject \in {Null} \cup (0..MaxObjects)
    /\ resizeHandle \in {Null} \cup (0..7)
    /\ Len(startPos) <= 1
    /\ Len(objects) <= MaxObjects
    /\ \A i \in 1..Len(shells) :
         /\ shells[i].bounds \in 1..Len(bnds)
         /\ shells[i].points \in 1..Len(pts)
         /\ Len(pts[shells[i].points]) >= 1

\* no resize step reads points[1] of a one-point rectangle or arrow
NoTypeError ==
    (isDrawing /\ tool = "select" /\ resizeHandle # Null
       /\ selectedObject # Null /\ selectedObject < Len(objects))
    => LET o == ObjVal(Heap, objects[selectedObject + 1])
       IN  (o.type \in {"rect", "arrow"} /\ Len(o.points) < 2)
              => resizeHandle \notin ReadsSecondPoint
\* the snapshot the cursor addresses
Current == Snapshot(historyIndex + 1)

\* C1: no stored snapshot is changed after it was committed.  In every step
\* the entries 0..cursor stay in the stack with their values, and so do the
\* entries beyond the cursor unless the step is a commit or redo (the cursor
\* advances): in particular no pointerMove changes any entry.
C1_SnapshotsNeverChange ==
    [][\A k \in 1..Len(history) :
          (k <= historyIndex + 1 \/ historyIndex' <= historyIndex)
             => /\ k <= Len(history')
                /\ SceneVal(Heap', history'[k]) = Snapshot(k)]_vars

\* C2: from the initial state, after N >= 1 completed draw gestures and then
\* N calls of undo(), the scene is empty.
C2_UndoAllDrawsEmptiesScene ==
    (obs.op = "undo" /\ obs.fresh /\ obs.phase = "U" /\ obs.nU = obs.nD)
       => Len(objects) = 0

\* C3: after N completed draw gestures, N calls of undo() and N calls of
\* redo(), the scene has the value it had after the N-th draw gesture and
\* the cursor is the last index of the stack.
C3_RedoRestoresDrawnScene ==
    (obs.op = "redo" /\ obs.phase = "R" /\ obs.nR = obs.nU)
       => (Scene = obs.drawn /\ historyIndex = Len(history) - 1)

\* C4: a commit truncates the stack to the entries 0..cursor, appends the
\* new snapshot and sets the cursor to the new last index, so that redo()
\* is a no-op after it.
C4_CommitTruncatesAndAppends ==
    [][(obs'.acted /\ obs'.op \in {"up", "erase", "delete", "clear"})
          => /\ Len(history') = historyIndex + 2
             /\ historyIndex' = Len(history') - 1
             /\ \A k \in 1..(historyIndex + 1) :
                   SceneVal(Heap', history'[k]) = Snapshot(k)
             /\ SceneVal(Heap', history'[Len(history')]) \in {Scene, Scene'}
             /\ RedoResult' = [historyIndex |-> historyIndex', objects |-> objects']
      ]_vars

\* C4 witness: a gesture was completed while snapshots lay beyond the cursor
C4_Witness ==
    /\ obs.op = "up"
    /\ obs.pre.len > obs.pre.idx + 1
    /\ obs.pre.idx >= 0
    /\ historyIndex = Len(history) - 1

\* C5: one undo() after a completed gesture or command that changed the
\* scene restores the scene the gesture or command started from.
C5_UndoRevertsLastAction ==
    obs.undoOfChange => Scene = obs.pre.scene

\* C6: a completed gesture or command that changed the scene has advanced
\* the cursor by exactly one and appended exactly one snapshot.
C6_OneSnapshotPerAction ==
    (obs.op \in Completing /\ Scene # obs.pre.scene)
       => (historyIndex = obs.pre.idx + 1 /\ Len(history) = obs.pre.idx + 2)

\* C7: the cursor is -1 exactly when the stack is empty, and otherwise
\* 0 <= cursor < length of the stack.
C7_CursorInRange ==
    /\ (historyIndex = -1) <=> (Len(history) = 0)
    /\ Len(history) > 0 => (0 <= historyIndex /\ historyIndex < Len(history))

\* C7 witness: the cursor is strictly inside a stack of several snapshots
C7_Witness ==
    /\ Len(history) >= 2
    /\ historyIndex = 0
    /\ obs.op = "undo"

\* C8: immediately after every commit, undo() and redo() the live scene
\* equals stack[cursor] by value, selected flags included.
C8_SceneEqualsCurrentSnapshot ==
    obs.acted => (historyIndex >= 0 /\ Scene = Current)

\* C9: undo() at cursor <= 0 and redo() at cursor >= length-1 change neither
\* the scene, the stack, the cursor nor the selection.
C9_OutOfRangeNavigationIsNoOp ==
    [][(\/ obs'.op = "undo" /\ historyIndex <= 0
        \/ obs'.op = "redo" /\ historyIndex >= Len(history) - 1)
          => UNCHANGED <<shells, bnds, pts, objects, history, historyIndex,
                         selectedObject, isDrawing, tool, startPos, resizeHandle>>
      ]_vars

\* C9 witness: undo() was called at cursor 0 of a non-empty stack
C9_Witness ==
    /\ obs.op = "undo"
    /\ ~obs.acted
    /\ historyIndex = 0
    /\ Len(objects) > 0

\* C10: clearAll() on a non-empty scene leaves the scene empty and the
\* selection cleared, and commits exactly one snapshot, the empty scene,
\* advancing the cursor by exactly one.
C10_ClearAllCommitsEmptyScene ==
    (obs.op = "clear" /\ Len(obs.pre.scene) > 0)
       => /\ Len(objects) = 0
          /\ selectedObject = Null
          /\ historyIndex = obs.pre.idx + 1
          /\ Len(history) = obs.pre.idx + 2
          /\ Current = <<>>

\* C10 witness: clearAll() was called on a scene with an object selected,
\* with snapshots beyond the cursor
C10_Witness ==
    /\ obs.op = "clear"
    /\ Len(obs.pre.scene) > 0
    /\ obs.pre.len > obs.pre.idx + 1

\* the 1-based indices of the objects of the live scene with selected = true
SelectedSet == {i \in 1..Len(objects) : Scene[i].selected}

\* C11: in every reachable state at most one object of the live scene has
\* selected = true.
C11_AtMostOneSelected ==
    Cardinality(SelectedSet) <= 1

\* C11 witness: a scene of two objects of which exactly one is selected
C11_Witness ==
    /\ Len(objects) = 2
    /\ Cardinality(SelectedSet) = 1
    /\ selectedObject # Null

\* C15: between gestures every object of the live scene with at least two
\* points has the bounds that calculateBounds derives from its points.
C15_BoundsFollowPoints ==
    ~isDrawing =>
        \A i \in 1..Len(objects) :
            Len(Scene[i].points) >= 2 =>
                Scene[i].bounds =
                    calculateBounds(Scene[i].points, I(Scene[i].strokeWidth))

\* C19: after every completed draw gesture every circle, rectangle and
\* arrow of the scene has exactly two points.
C19_ShapesHaveTwoPoints ==
    (obs.op = "up" /\ tool \in DrawTools) =>
        \A i \in 1..Len(objects) :
            Scene[i].type \in {"circle", "rect", "arrow"} =>
                Len(Scene[i].points) = 2

\* C20: a gesture that left the scene as it was at its pointerDown has left
\* the history stack and the cursor unchanged at the end of its pointerUp.
C20_UnchangedSceneCommitsNothing ==
    (obs.op = "up" /\ Scene = obs.pre.scene) =>
        (historyIndex = obs.pre.idx /\ Len(history) = obs.pre.len)

\* C12: when object A is selected and a select-tool pointerDown, not on one
\* of A's resize handles, hits a different object B, then afterwards B is
\* the one selected object, A is not selected, and the selection index
\* designates B.
C12_SelectingBDeselectsA ==
    [][LET p == startPos'[1]
           a == selectedObject + 1
           b == ClickedObject(p)
       IN  (/\ ~isDrawing /\ isDrawing'
            /\ tool = "select"
            /\ selectedObject # Null
            /\ a \in SelectedSet
            /\ getHandleAtPosition(p, Scene[a].bounds) = Null
            /\ b # 0
            /\ b # a)
           => /\ Len(objects') = Len(objects)
              /\ SelectedSet' = {b}
              /\ ~Scene'[a].selected
              /\ selectedObject' = b - 1
      ]_vars

\* C12 witness: a pointerDown has moved the selection from one object of
\* the scene to another
C12_Witness ==
    /\ obs.op = "down"
    /\ tool = "select"
    /\ selectedObject # Null
    /\ selectedObject + 1 \in SelectedSet
    /\ Len(obs.pre.scene) = Len(objects)
    /\ \E i \in 1..Len(objects) :
          /\ i # selectedObject + 1
          /\ obs.pre.scene[i].selected

\* the object a draw gesture is drawing: the last one of the scene
Drawn == Scene[Len(objects)]

\* C16: after every pointerMove of a draw gesture the bounds of the object
\* being drawn are the box of ALL its points inflated by w/2 on each side,
\* with w = 0 for the handlers of the useCanvasEvents hook.
C16_HookBoundsCoverAllPoints ==
    (obs.op = "move" /\ tool # "select" /\ Len(objects) > 0)
        => Drawn.bounds = calculateBounds(Drawn.points, I(0))

\* whether the object with value o passes the select hit-test at p: p lies
\* inside its bounds and, for a freehand stroke, within stroke proximity of
\* its polyline
Passes(p, o) ==
    /\ InBounds(p, o.bounds)
    /\ o.type \in {"line", "brush"}
          => isPointOnLine(p, o.points, I(o.strokeWidth + Tolerance))

\* a freehand stroke has at least two points and no two consecutive points
\* coincide (a polyline all of whose segments have a length)
ProperStroke(o) ==
    o.type \in {"line", "brush"} =>
        /\ Len(o.points) >= 2
        /\ \A k \in 1..(Len(o.points) - 1) : o.points[k] # o.points[k + 1]

\* C18: in a scene of proper strokes a select-tool pointerDown that grabs
\* no resize handle selects the last object in scene order that passes the
\* hit-test, and none when no object passes; a freehand stroke whose bounds
\* contain the point while its polyline is far from it is not hit.
C18_HitIsTopmostPassing ==
    [][LET p == startPos'[1]
           passing == {i \in 1..Len(objects) : Passes(p, Scene[i])}
       IN  (/\ ~isDrawing /\ isDrawing'
            /\ tool = "select"
            /\ resizeHandle' = resizeHandle
            /\ \A i \in 1..Len(objects) : ProperStroke(Scene[i]))
           => /\ passing = {} => selectedObject' = Null
              /\ passing # {} =>
                    /\ selectedObject' # Null
                    /\ selectedObject' + 1 \in passing
                    /\ \A j \in passing : j <= selectedObject' + 1
      ]_vars

\* C13: when the editor is given an initial serialized scene, after loading
\* the live scene is the deserialized scene and the history stack is exactly
\* one snapshot equal to it, with cursor 0.
C13_SavedSceneIsLoaded ==
    obs.op = "init" =>
        /\ Scene = SavedScene
        /\ Len(history) = 1
        /\ historyIndex = 0
        /\ Snapshot(1) = SavedScene

\* the stroke widths of the objects of the live scene and of every snapshot
StrokeWidths ==
    {Scene[i].strokeWidth : i \in 1..Len(objects)}
        \cup UNION {{Snapshot(k)[i].strokeWidth : i \in 1..Len(history[k])} :
                       k \in 1..Len(history)}

\* C14: every object of the scene and of every history snapshot has a
\* strokeWidth in 1..50, whichever of the two width controls set the width.
C14_StrokeWidthInRange ==
    StrokeWidths \subseteq 1..50


\* C17: after a resize step of a circle through any of the 8 handles, its
\* first point is the centre of the new bounds and its second point is
\* (centre.x + max(newWidth, newHeight)/2, centre.y)
C17_CircleFollowsNewBounds ==
    (/\ obs.op = "move"
     /\ tool = "select"
     /\ resizeHandle \in 0..7
     /\ selectedObject # Null
     /\ selectedObject < Len(objects)
     /\ shells[objects[selectedObject + 1]].type = "circle")
    => LET o == ObjVal(Heap, objects[selectedObject + 1])
           nb == o.bounds
           centre == Pt(RAdd(nb.x, RHalf(nb.width)), RAdd(nb.y, RHalf(nb.height)))
       IN  /\ Len(o.points) >= 2
           /\ o.points[1] = centre
           /\ o.points[2] = Pt(RAdd(centre.x, RHalf(RMax(nb.width, nb.height))),
                               centre.y)

\* the circle with bounds {0,0,40,40} was resized through the bottom-right
\* handle to {0,0,80,80}: centre (40,40), rim point (80,40)
C17_Witness ==
    /\ obs.op = "move"
    /\ tool = "select"
    /\ resizeHandle = 7
    /\ selectedObject = 0
    /\ Len(objects) = 1
    /\ LET o == ObjVal(Heap, objects[1])
       IN  /\ o.type = "circle"
           /\ o.bounds = [x |-> I(0), y |-> I(0), width |-> I(80), height |-> I(80)]
           /\ o.points = <<Pt(I(40), I(40)), Pt(I(80), I(40))>>


\* the history stack as a sequence of scene values
Snapshots == [k \in 1..Len(history) |-> Snapshot(k)]

\* C21: a pointerDown with the eraser at p removes from the scene exactly
\* the objects that pass the hit-test at p, all of them, keeps the others
\* unchanged and in order, and commits a snapshot of the result at that
\* moment if and only if an object was removed.
C21_EraserRemovesAllHit ==
    [][LET p == startPos'[1]
           keep == SelectSeq(Scene, LAMBDA o : ~Passes(p, o))
       IN  (~isDrawing /\ isDrawing' /\ tool = "eraser")
           => /\ Scene' = keep
              /\ Len(keep) < Len(Scene) =>
                    /\ historyIndex' = historyIndex + 1
                    /\ Snapshots' = SubSeq(Snapshots, 1, historyIndex + 1) \o <<keep>>
              /\ Len(keep) = Len(Scene) =>
                    /\ historyIndex' = historyIndex
                    /\ Snapshots' = Snapshots
      ]_vars

\* C21 witness: one pointerDown of the eraser has removed two overlapping
\* objects at once and committed the empty scene
C21_Witness ==
    /\ obs.op = "erase"
    /\ Len(obs.pre.scene) = 2
    /\ objects = <<>>
    /\ historyIndex = obs.pre.idx + 1
    /\ Current = <<>>


\* C22: a select-tool pointerDown that hits no object and no resize handle
\* of the selected object leaves no object selected and the selection
\* index cleared, and the pointerMove events that follow before pointerUp
\* leave the points and bounds of every object unchanged.
C22_MissedSelectIsIdle ==
    [][/\ (/\ ~isDrawing /\ isDrawing'
           /\ tool = "select"
           /\ resizeHandle' = resizeHandle
           /\ \A i \in 1..Len(objects) : ~InBounds(startPos'[1], Scene[i].bounds))
          => /\ SelectedSet' = {}
             /\ selectedObject' = Null
             /\ [i \in 1..Len(objects') |-> [Scene'[i] EXCEPT !.selected = FALSE]]
                  = [i \in 1..Len(objects) |-> [Scene[i] EXCEPT !.selected = FALSE]]
       /\ (/\ isDrawing /\ isDrawing'
           /\ tool = "select"
           /\ selectedObject = Null
           /\ obs.op \in {"down", "move"}
           /\ obs'.op = "move")
          => Scene' = Scene
      ]_vars


\* C23: during a draw gesture each pointerMove at p updates only the object
\* the gesture's pointerDown created (the last one): a freehand stroke gets
\* p appended, so that its points are the anchor followed by the sampled
\* positions in order; a two-point shape gets points = [anchor, p], the
\* anchor being the pointerDown position; every other object is unchanged.
C23_DrawMoveUpdatesDrawnObject ==
    [][\A p \in PosSet :
          (/\ isDrawing
           /\ tool \in DrawTools
           /\ obs.op \in {"down", "move"}
           /\ handleMouseMoveWithin(p, MaxMovesDraw))
          => /\ Len(objects') = Len(objects)
             /\ \A i \in 1..(Len(objects) - 1) : Scene'[i] = Scene[i]
             /\ Drawn.points[1] = startPos[1]
             /\ Drawn'.points = IF tool = "brush"
                                THEN Append(Drawn.points, p)
                                ELSE <<startPos[1], p>>
             /\ [Drawn' EXCEPT !.points = <<>>, !.bounds = <<>>]
                  = [Drawn EXCEPT !.points = <<>>, !.bounds = <<>>]
      ]_vars

\* C23 witness: a second freehand stroke holds its anchor and two sampled
\* positions in order, next to an earlier object
C23_Witness ==
    /\ isDrawing
    /\ tool = "brush"
    /\ obs.op = "move"
    /\ Len(objects) = 2
    /\ Drawn.points = <<Pt(I(10), I(10)), Pt(I(30), I(30)), Pt(I(10), I(10))>>


\* the points translated by (dx, dy)
Translated(points, dx, dy) ==
    [i \in 1..Len(points) |-> Pt(RAdd(points[i].x, dx), RAdd(points[i].y, dy))]

\* C24: a move gesture is a pure translation.  The select-tool pointerDown
\* at p0 that hits an object changes no point and no bounds and records
\* p0; each pointerMove at p that follows translates every point of the
\* selected object and its bounds.x/bounds.y by p minus the position
\* recorded before it and records p, so that after the moves ending at pn
\* the object is translated by exactly pn - p0; the number of points and
\* the width and height of the bounds stay, and so does every other object.
C24_MoveIsPureTranslation ==
    [][/\ (/\ ~isDrawing /\ isDrawing'
           /\ tool = "select"
           /\ resizeHandle' = Null
           /\ selectedObject' # Null)
          => /\ [i \in 1..Len(objects') |-> [Scene'[i] EXCEPT !.selected = FALSE]]
                  = [i \in 1..Len(objects) |-> [Scene[i] EXCEPT !.selected = FALSE]]
             /\ InBounds(startPos'[1], Scene'[selectedObject' + 1].bounds)
       /\ \A p \in PosSetSelect :
             (/\ isDrawing
              /\ tool = "select"
              /\ resizeHandle = Null
              /\ selectedObject # Null
              /\ obs.op \in {"down", "move"}
              /\ handleMouseMoveWithin(p, MaxMovesDraw))
             => LET a == selectedObject + 1
                    dx == RSub(p.x, startPos[1].x)
                    dy == RSub(p.y, startPos[1].y)
                IN  /\ startPos' = <<p>>
                    /\ Len(objects') = Len(objects)
                    /\ \A i \in 1..Len(objects) : i # a => Scene'[i] = Scene[i]
                    /\ Scene'[a].points = Translated(Scene[a].points, dx, dy)
                    /\ Scene'[a].bounds =
                          [Scene[a].bounds EXCEPT !.x = RAdd(@, dx), !.y = RAdd(@, dy)]
                    /\ [Scene'[a] EXCEPT !.points = <<>>, !.bounds = <<>>]
                         = [Scene[a] EXCEPT !.points = <<>>, !.bounds = <<>>]
      ]_vars

\* C24 witness: the rectangle drawn from (10,10) to (30,30) was grabbed at
\* (20,20) and moved through (10,10) to (30,30): it lies translated by
\* (10,10), next to the other rectangle
C24_Witness ==
    /\ isDrawing
    /\ tool = "select"
    /\ obs.op = "move"
    /\ nMoves = 2
    /\ resizeHandle = Null
    /\ selectedObject = 0
    /\ Len(objects) = 2
    /\ startPos = <<Pt(I(30), I(30))>>
    /\ Scene[1].points = <<Pt(I(20), I(20)), Pt(I(40), I(40))>>
    /\ Scene[1].bounds =
          [RectBounds(TRUE) EXCEPT !.x = RAdd(@, I(10)), !.y = RAdd(@, I(10))]
    /\ Scene[2].points = RectPoints(FALSE)


\* the box spanned by the edges of the candidate box c, whichever way round
FlippedBox(c) ==
    [x |-> RMin(c.x, RAdd(c.x, c.width)),
     y |-> RMin(c.y, RAdd(c.y, c.height)),
     width |-> RAbs(c.width),
     height |-> RAbs(c.height)]

\* a pointerMove at p is a resize step of the selected object
IsResizeStep(p) ==
    /\ isDrawing
    /\ tool = "select"
    /\ resizeHandle \in 0..7
    /\ selectedObject # Null
    /\ selectedObject < Len(objects)
    /\ handleMouseMove(p)

\* the candidate box of the resize step at p
StepCandidate(p) ==
    ResizeCandidate(Scene[selectedObject + 1].bounds, resizeHandle,
                    RSub(p.x, startPos[1].x), RSub(p.y, startPos[1].y))

\* C25: the bounds of every object, in the scene and in the snapshots, have
\* width >= 0 and height >= 0 after every step, and a resize step through
\* any handle 0..7 whose delta drags an edge past the opposite edge leaves
\* the box with the origin flipped and the absolute extent.
C25_BoundsNeverNegative ==
    [][/\ \A k \in 1..Len(bnds') :
             RLe(I(0), bnds'[k].width) /\ RLe(I(0), bnds'[k].height)
       /\ \A p \in PosSetResize :
             IsResizeStep(p)
             => Scene'[selectedObject + 1].bounds = FlippedBox(StepCandidate(p))
      ]_vars

\* C25 witness: the bottom-right handle of the box {20,20,20,20} was
\* dragged from (40,40) past the top-left corner to (0,0); the box is
\* {0,0,20,20} (a drag of the bottom-right handle of a box with origin
\* (0,0) to (0,0) leaves it empty instead)
C25_Witness ==
    /\ obs.op = "move"
    /\ tool = "select"
    /\ resizeHandle = 7
    /\ selectedObject = 0
    /\ Len(objects) = 1
    /\ startPos = <<Pt(I(0), I(0))>>
    /\ Scene[1].bounds = [x |-> I(0), y |-> I(0), width |-> I(20), height |-> I(20)]


\* the edges of the box that handle h controls
ControlledEdges(h) ==
    CASE h = 0 -> {"left", "top"}
      [] h = 1 -> {"top"}
      [] h = 2 -> {"right", "top"}
      [] h = 3 -> {"left"}
      [] h = 4 -> {"right"}
      [] h = 5 -> {"left", "bottom"}
      [] h = 6 -> {"bottom"}
      [] h = 7 -> {"right", "bottom"}
      [] OTHER -> {}

\* C26: a resize step of a rectangle or arrow sets the endpoint coordinates
\* on the edges that the active handle controls to the edges of the new
\* box (left and top are the coordinates of points[0], right and bottom
\* those of points[1]) and keeps the coordinates on the other edges.
C26_ResizeChangesControlledEdgesOnly ==
    [][(/\ isDrawing /\ isDrawing'
        /\ tool = "select"
        /\ resizeHandle \in 0..7
        /\ selectedObject # Null
        /\ selectedObject < Len(objects)
        /\ Scene[selectedObject + 1].type \in {"rect", "arrow"}
        /\ Len(Scene[selectedObject + 1].points) = 2
        /\ obs.op \in {"down", "move"}
        /\ obs'.op = "move")
       => LET old == Scene[selectedObject + 1].points
              new == Scene'[selectedObject + 1].points
              nb == Scene'[selectedObject + 1].bounds
              ctl == ControlledEdges(resizeHandle)
          IN  /\ Len(new) = 2
              /\ new[1].x = IF "left" \in ctl THEN nb.x ELSE old[1].x
              /\ new[1].y = IF "top" \in ctl THEN nb.y ELSE old[1].y
              /\ new[2].x = IF "right" \in ctl THEN RAdd(nb.x, nb.width) ELSE old[2].x
              /\ new[2].y = IF "bottom" \in ctl THEN RAdd(nb.y, nb.height) ELSE old[2].y
      ]_vars


\* a coordinate pair of numbers: both rationals have a denominator
Defined(pt) == pt.x[2] > 0 /\ pt.y[2] > 0

\* C27: a resize step of a freehand stroke maps each point (px,py) to
\* (newBounds.x + (px - old.x)*sx, newBounds.y + (py - old.y)*sy) with
\* sx = newWidth/oldWidth and sy = newHeight/oldHeight, the scale being 1
\* when the old width (resp. height) is 0; every coordinate it leaves is a
\* number.
C27_StrokeScalesWithGuard ==
    [][\A p \in PosSetResize :
          (IsResizeStep(p) /\ Scene[selectedObject + 1].type = "line")
          => LET old == Scene[selectedObject + 1].bounds
                 nb == Scene'[selectedObject + 1].bounds
                 points == Scene[selectedObject + 1].points
                 new == Scene'[selectedObject + 1].points
                 sx == IF old.width = I(0) THEN I(1) ELSE RDiv(nb.width, old.width)
                 sy == IF old.height = I(0) THEN I(1) ELSE RDiv(nb.height, old.height)
             IN  /\ Len(new) = Len(points)
                 /\ \A i \in 1..Len(points) :
                       /\ new[i].x = RAdd(nb.x, RMul(RSub(points[i].x, old.x), sx))
                       /\ new[i].y = RAdd(nb.y, RMul(RSub(points[i].y, old.y), sy))
                       /\ Defined(new[i])
      ]_vars

\* C27 witness: a stroke whose box had been resized to width 0 was resized
\* again, to a box with a width
C27_Witness ==
    /\ obs.op = "move"
    /\ tool = "select"
    /\ resizeHandle \in 0..7
    /\ selectedObject = 0
    /\ Len(objects) = 1
    /\ Scene[1].type = "line"
    /\ Len(obs.pre.scene) = 1
    /\ obs.pre.scene[1].bounds.width = I(0)
    /\ RLt(I(0), Scene[1].bounds.width)


\* C28: pointerUp always ends the gesture: after it the machine is idle and
\* the resize-handle marker is cleared; a pointerMove received while idle
\* changes neither the scene nor the history; and a select-tool pointerDown
\* on the body of an object (on no handle of the selected object) leaves
\* the marker cleared, so that the pointerMove that follows moves the
\* object, keeping the size of its box, instead of resizing it.
C28_PointerUpEndsGesture ==
    [][/\ obs'.op \in {"up", "leave"} /\ obs' # obs
          => ~isDrawing' /\ resizeHandle' = Null
       /\ \A p \in PosSetResize :
             (~isDrawing /\ handleMouseMove(p))
             => /\ Scene' = Scene
                /\ Snapshots' = Snapshots
                /\ historyIndex' = historyIndex
       /\ (/\ ~isDrawing /\ isDrawing'
           /\ tool = "select"
           /\ selectedObject' # Null
           /\ selectedObject # Null =>
                 getHandleAtPosition(startPos'[1], Scene[selectedObject + 1].bounds) = Null)
          => resizeHandle' = Null
       /\ \A p \in PosSetResize :
             (/\ isDrawing
              /\ tool = "select"
              /\ selectedObject # Null
              /\ resizeHandle = Null
              /\ handleMouseMove(p))
             => LET a == selectedObject + 1
                IN  /\ Scene'[a].bounds.width = Scene[a].bounds.width
                    /\ Scene'[a].bounds.height = Scene[a].bounds.height
                    /\ Scene'[a].bounds.x =
                          RAdd(Scene[a].bounds.x, RSub(p.x, startPos[1].x))
                    /\ Scene'[a].bounds.y =
                          RAdd(Scene[a].bounds.y, RSub(p.y, startPos[1].y))
      ]_vars

\* C28 witness: the circle was resized to the box {0,0,80,80} through a
\* handle, the gesture was ended, and a second gesture that grabbed its
\* body has moved it by (20,20)
C28_Witness ==
    /\ isDrawing
    /\ obs.op = "move"
    /\ tool = "select"
    /\ resizeHandle = Null
    /\ selectedObject = 0
    /\ Len(objects) = 1
    /\ Scene[1].bounds = [x |-> I(20), y |-> I(20), width |-> I(80), height |-> I(80)]


\* the scene without its object number a
SceneWithout(a) ==
    [i \in 1..(Len(objects) - 1) |-> IF i < a THEN Scene[i] ELSE Scene[i + 1]]

\* C29: a click on Delete with an object selected removes exactly that
\* object, keeps the others unchanged and in order, clears the selection
\* and commits exactly one snapshot equal to the resulting scene; with no
\* object selected it changes neither the scene nor the history.
C29_DeleteRemovesSelected ==
    [][(obs'.op = "delete" /\ nCommands' = nCommands + 1)
       => IF selectedObject # Null /\ selectedObject < Len(objects)
          THEN /\ Scene' = SceneWithout(selectedObject + 1)
               /\ selectedObject' = Null
               /\ historyIndex' = historyIndex + 1
               /\ Snapshots' = SubSeq(Snapshots, 1, historyIndex + 1) \o <<Scene'>>
          ELSE /\ Scene' = Scene
               /\ Snapshots' = Snapshots
               /\ historyIndex' = historyIndex
      ]_vars


\* C30: whenever the background reference changes (an image load completes
\* successfully, or imageSrc is removed) the canvas is redrawn with the new
\* background: in no state does the installed background differ from the
\* background last drawn (a redraw is never left pending between two
\* steps: the effects of a render run with it).
C30_DrawnBackgroundIsInstalled ==
    canvasBackground = backgroundImage


\* C31: during an erase gesture (pointerDown with the eraser, then
\* pointerMove events before pointerUp) no pointerMove changes the points
\* or bounds of an object of the scene.
C31_EraseMoveChangesNothing ==
    [][(/\ isDrawing /\ isDrawing'
        /\ tool = "eraser"
        /\ obs.op \in {"down", "erase", "move"}
        /\ obs'.op = "move")
       => Scene' = Scene
      ]_vars


\* C32: between gestures the selection index and the selected flags agree:
\* the index is null and no object is flagged selected, or it is the index
\* of an object of the live scene and that object is the one flagged
\* selected.
C32_SelectionIndexMatchesFlags ==
    ~isDrawing =>
        \/ selectedObject = Null /\ SelectedSet = {}
        \/ /\ selectedObject # Null
           /\ selectedObject + 1 \in 1..Len(objects)
           /\ Scene[selectedObject + 1].selected


\* C33: a resize step with zero pointer delta (a pointerMove at the
\* position of the previous pointer event) leaves the points and the bounds
\* of the object unchanged, for every kind and every handle.
C33_ZeroDeltaResizeIsIdentity ==
    [][\A p \in PosSetResize \cup PosSetSelect :
          (IsResizeStep(p) /\ startPos = <<p>>)
          => /\ Scene'[selectedObject + 1].points = Scene[selectedObject + 1].points
             /\ Scene'[selectedObject + 1].bounds = Scene[selectedObject + 1].bounds
      ]_vars


\* C34: every point of every object of the scene lies inside the bounds of
\* that object.
C34_PointsInsideBounds ==
    \A i \in 1..Len(objects) :
        \A k \in 1..Len(Scene[i].points) :
            InBounds(Scene[i].points[k], Scene[i].bounds)


\* C35: background loads do not race.  The completion or failure of a load
\* started for an imageSrc that is no longer the current one leaves the
\* installed background as it is, and once no load is outstanding the
\* installed background is the image of the current imageSrc, or absent
\* (always absent when imageSrc is unset).
C35_LoadsDoNotRace ==
    [][/\ \A l \in loading :
             (loading' = loading \ {l} /\ l.img # imageSrc)
             => backgroundImage' = backgroundImage
       /\ loading' = {} => backgroundImage' \in {imageSrc', Null}
      ]_vars


\* the point of the circle with centre c through p that lies opposite p
Opposite(c, p) ==
    Pt(RSub(RAdd(c.x, c.x), p.x), RSub(RAdd(c.y, c.y), p.y))

\* C36: after a completed circle draw gesture with centre c and rim point p
\* the bounds of the circle contain the rim point opposite p,
\* (2*c.x - p.x, 2*c.y - p.y), so that a pointerDown of the select tool or
\* the eraser there hits the circle.
C36_CircleBoundsContainCircle ==
    ~isDrawing =>
        \A i \in 1..Len(objects) :
            (Scene[i].type = "circle" /\ Len(Scene[i].points) = 2)
            => /\ InBounds(Opposite(Scene[i].points[1], Scene[i].points[2]),
                           Scene[i].bounds)
               /\ HitTest(Opposite(Scene[i].points[1], Scene[i].points[2]), Scene[i])

====
